---------------------------- MODULE Spec2Model ----------------------------
(***************************************************************************)
(* A model of main.cpp: the Terrain class (a height field with a lazily    *)
(* derived normal field), loadTerrain, and the game state driven by the    *)
(* GLUT callbacks handleKeypress, handleKeypress2, update and drawScene.   *)
(*                                                                         *)
(* Numbers.  The program computes in 32-bit floats.  The model computes in *)
(* fixed point: a float f is the integer f * Scale, products and quotients *)
(* are rescaled with truncation toward zero, and a square root is the      *)
(* integer square root.  All the constants of the program (1, 0.5, 0.3,    *)
(* 0.05, 0.08, 7.5, 8, 55) are exact in this representation.               *)
(*                                                                         *)
(* Vec3f (vec3f.h) and Image/loadBMP (imageloader.h) are not part of the   *)
(* source at hand: Vec3f's operations are modelled as the usual vector     *)
(* algebra, a decoded image is an input of LoadTerrain.                    *)
(***************************************************************************)
EXTENDS Integers, Sequences, FiniteSets, TLC

VARIABLES
    terrain,   \* the Terrain object behind _terrain (main.cpp:214), or NoTerrain
    ret,       \* the last call: its name, arguments, outcome and returned value
    sets,      \* number of setHeight calls made by the caller (bounded by MaxSets)
    crashed,   \* the process was ended by a fault (an outcome of undefined behaviour)
    xpos, zpos, xvel, zvel, acc, fi, tarx, tarz, cam, score,   \* main.cpp:219-229
    extras     \* number of arrow / launch / camera key presses (bounded by MaxExtra)

tvars == <<terrain, ret, sets, crashed>>
gvars == <<xpos, zpos, xvel, zvel, acc, fi, tarx, tarz, cam, score, extras>>
vars == <<terrain, ret, sets, crashed, xpos, zpos, xvel, zvel, acc, fi, tarx, tarz,
          cam, score, extras>>

---------------------------------------------------------------------------
(* Bounds of the model *)

MaxDim == 3        \* terrains and images have at most MaxDim x MaxDim cells
MaxSets == 1       \* the caller calls setHeight at most MaxSets times per terrain
MapW == 60         \* width of the terrain loaded from heightmap.bmp
MapL == 60         \* length of the terrain loaded from heightmap.bmp
BackX == 9         \* the avatar stays within BackX cells below its start in x,
FwdX == 42         \*   FwdX cells above it,
BackZ == 0         \*   BackZ cells below its start in z
FwdZ == 24         \*   and FwdZ cells above it
MaxExtra == 2      \* at most MaxExtra arrow, launch and camera keys are pressed
MaxHits == 1       \* keys are pressed until the target was hit MaxHits times
MaxRand == 1       \* rand() returns 0..MaxRand

(* Fixed point: the integer n stands for the float n / Scale *)
Scale == 1000

F(n) == n * Scale

Abs(a) == IF a < 0 THEN -a ELSE a

\* float division, truncated toward zero (b > 0)
FDiv(a, b) == IF a >= 0 THEN a \div b ELSE -((-a) \div b)

\* float product of two fixed-point numbers
FMul(a, b) == FDiv(a * b, Scale)

\* Newton's iteration for the integer square root of n, from a guess x >= sqrt(n)
RECURSIVE SqrtFrom(_, _)
SqrtFrom(n, x) ==
    LET y == (x + n \div x) \div 2
    IN  IF y >= x THEN x ELSE SqrtFrom(n, y)

---------------------------------------------------------------------------
(* Vec3f *)

Vec3f(x, y, z) == <<x, y, z>>

Zero == Vec3f(0, 0, 0)

VAdd(u, v) == <<u[1] + v[1], u[2] + v[2], u[3] + v[3]>>

\* Vec3f::operator*(float)
VScale(u, s) == <<FMul(u[1], s), FMul(u[2], s), FMul(u[3], s)>>

\* Vec3f::cross
Cross(u, v) ==
    <<FMul(u[2], v[3]) - FMul(u[3], v[2]),
      FMul(u[3], v[1]) - FMul(u[1], v[3]),
      FMul(u[1], v[2]) - FMul(u[2], v[1])>>

\* Vec3f::magnitude: sqrt(x*x + y*y + z*z)
Magnitude(u) ==
    LET n == u[1] * u[1] + u[2] * u[2] + u[3] * u[3]
    IN  IF n = 0 THEN 0 ELSE SqrtFrom(n, Abs(u[1]) + Abs(u[2]) + Abs(u[3]))

\* Vec3f::normalize: every component divided by the magnitude.  The zero vector
\* has no normal form (the float division yields NaN): it is never normalized by
\* computeNormals, whose cross products all have Y = 1.
Normalize(u) ==
    LET m == Magnitude(u)
    IN  <<FDiv(u[1] * Scale, m), FDiv(u[2] * Scale, m), FDiv(u[3] * Scale, m)>>

---------------------------------------------------------------------------
(* Terrain *)

NoTerrain ==
    [live |-> FALSE, w |-> 0, l |-> 0, hs |-> <<>>, normals |-> <<>>,
     computedNormals |-> FALSE]

InRange(t, x, z) == x \in 0..(t.w - 1) /\ z \in 0..(t.l - 1)

\* what a heights array holds: the values the callers of the model store
HeightVals == {0, F(1)}

\* what freshly allocated, never written Vec3f storage may hold
GarbageVecs == {Zero, Vec3f(-Scale, 0, Scale)}

\* Terrain::Terrain(w2, l2) on storage holding h0 (floats) and n0 (Vec3f).
\*   l2 < 0, or l2 > 0 and w2 < 0: operator new[] throws (bad_array_new_length),
\*   no object exists.  Otherwise the object exists, also when l2 = 0 or w2 = 0.
NewThrows(w2, l2) == l2 < 0 \/ (l2 > 0 /\ w2 < 0)

TerrainNew(w2, l2, h0, n0) ==
    [live |-> TRUE, w |-> w2, l |-> l2,
     hs |-> [z \in 0..(l2 - 1) |-> [x \in 0..(w2 - 1) |-> h0]],
     normals |-> [z \in 0..(l2 - 1) |-> [x \in 0..(w2 - 1) |-> n0]],
     computedNormals |-> FALSE]

\* a setHeight that forgets to invalidate the normals
SetHeightT_KeepsFlag(t, x, z, y) == [t EXCEPT !.hs[z][x] = y]

\* Terrain::setHeight, x and z in range
SetHeightT(t, x, z, y) ==
    [t EXCEPT !.hs[z][x] = y, !.computedNormals = FALSE]

\* a guard of pass 1 that is off by one: the last row looks one row further
HasIn_OffByOne(t, x, z) == z < t.l

\* computeNormals, pass 1: which edge vectors the cell (x, z) builds
HasOut(t, x, z) == z > 0
HasIn(t, x, z) == z < t.l - 1
HasLeft(t, x, z) == x > 0
HasRight(t, x, z) == x < t.w - 1

\* the cells of hs that pass 1 reads at (x, z), as <<z, x>>
Pass1Reads(t, x, z) ==
    (IF HasOut(t, x, z) THEN {<<z - 1, x>>, <<z, x>>} ELSE {})
    \cup (IF HasIn(t, x, z) THEN {<<z + 1, x>>, <<z, x>>} ELSE {})
    \cup (IF HasLeft(t, x, z) THEN {<<z, x - 1>>, <<z, x>>} ELSE {})
    \cup (IF HasRight(t, x, z) THEN {<<z, x + 1>>, <<z, x>>} ELSE {})

\* the first cross product with its operands swapped
CrossOutLeft_Swapped(out, left) == Cross(left, out)

\* the four cross products of pass 1, in the order of the code
CrossOutLeft(out, left) == Cross(out, left)
CrossLeftIn(left, in) == Cross(left, in)
CrossInRight(in, right) == Cross(in, right)
CrossRightOut(right, out) == Cross(right, out)

\* the pairs of edge vectors that are summed at (x, z)
Pairs(t, x, z) ==
    (IF x > 0 /\ z > 0 THEN {"out_left"} ELSE {})
    \cup (IF x > 0 /\ z < t.l - 1 THEN {"left_in"} ELSE {})
    \cup (IF x < t.w - 1 /\ z < t.l - 1 THEN {"in_right"} ELSE {})
    \cup (IF x < t.w - 1 /\ z > 0 THEN {"right_out"} ELSE {})

\* pass 1 with the operands of every cross product swapped
RawNormal_Swapped(t, x, z) ==
    LET h == t.hs
        out == Vec3f(0, h[z - 1][x] - h[z][x], -Scale)
        in == Vec3f(0, h[z + 1][x] - h[z][x], Scale)
        left == Vec3f(-Scale, h[z][x - 1] - h[z][x], 0)
        right == Vec3f(Scale, h[z][x + 1] - h[z][x], 0)
        p == Pairs(t, x, z)
        s1 == IF "out_left" \in p THEN Normalize(Cross(left, out)) ELSE Zero
        s2 == IF "left_in" \in p THEN Normalize(Cross(in, left)) ELSE Zero
        s3 == IF "in_right" \in p THEN Normalize(Cross(right, in)) ELSE Zero
        s4 == IF "right_out" \in p THEN Normalize(Cross(out, right)) ELSE Zero
    IN  VAdd(VAdd(VAdd(VAdd(Zero, s1), s2), s3), s4)

\* computeNormals, pass 1: the raw normal of the cell (x, z)
RawNormal(t, x, z) ==
    LET h == t.hs
        out == Vec3f(0, h[z - 1][x] - h[z][x], -Scale)
        in == Vec3f(0, h[z + 1][x] - h[z][x], Scale)
        left == Vec3f(-Scale, h[z][x - 1] - h[z][x], 0)
        right == Vec3f(Scale, h[z][x + 1] - h[z][x], 0)
        p == Pairs(t, x, z)
        s1 == IF "out_left" \in p THEN Normalize(CrossOutLeft(out, left)) ELSE Zero
        s2 == IF "left_in" \in p THEN Normalize(CrossLeftIn(left, in)) ELSE Zero
        s3 == IF "in_right" \in p THEN Normalize(CrossInRight(in, right)) ELSE Zero
        s4 == IF "right_out" \in p THEN Normalize(CrossRightOut(right, out)) ELSE Zero
    IN  VAdd(VAdd(VAdd(VAdd(Zero, s1), s2), s3), s4)

\* the edge vectors a pair of pass 1 reads; a pair whose vector was not built
\* reads an uninitialized Vec3f
PairNeeds(p) ==
    CASE p = "out_left" -> {"out", "left"}
      [] p = "left_in" -> {"left", "in"}
      [] p = "in_right" -> {"in", "right"}
      [] p = "right_out" -> {"right", "out"}

Built(t, x, z) ==
    (IF HasOut(t, x, z) THEN {"out"} ELSE {})
    \cup (IF HasIn(t, x, z) THEN {"in"} ELSE {})
    \cup (IF HasLeft(t, x, z) THEN {"left"} ELSE {})
    \cup (IF HasRight(t, x, z) THEN {"right"} ELSE {})

FALLOUT_RATIO == Scale \div 2

\* the cells of normals2 that pass 2 reads at (x, z), as <<z, x>>
Pass2Reads(t, x, z) ==
    {<<z, x>>}
    \cup (IF x > 0 THEN {<<z, x - 1>>} ELSE {})
    \cup (IF x < t.w - 1 THEN {<<z, x + 1>>} ELSE {})
    \cup (IF z > 0 THEN {<<z - 1, x>>} ELSE {})
    \cup (IF z < t.l - 1 THEN {<<z + 1, x>>} ELSE {})

\* computeNormals, pass 2: the smoothed normal of (x, z) from the raw normals n2
Smooth(t, n2, x, z) ==
    LET s0 == n2[z][x]
        s1 == IF x > 0 THEN VAdd(s0, VScale(n2[z][x - 1], FALLOUT_RATIO)) ELSE s0
        s2 == IF x < t.w - 1 THEN VAdd(s1, VScale(n2[z][x + 1], FALLOUT_RATIO)) ELSE s1
        s3 == IF z > 0 THEN VAdd(s2, VScale(n2[z - 1][x], FALLOUT_RATIO)) ELSE s2
        s4 == IF z < t.l - 1 THEN VAdd(s3, VScale(n2[z + 1][x], FALLOUT_RATIO)) ELSE s3
    IN  IF Magnitude(s4) = 0 THEN Vec3f(0, F(1), 0) ELSE s4

\* normals2 after pass 1
Normals2(t) ==
    [z \in 0..(t.l - 1) |-> [x \in 0..(t.w - 1) |-> RawNormal(t, x, z)]]

\* normals after both passes
NormalsOf(t) ==
    LET n2 == Normals2(t)
    IN  [z \in 0..(t.l - 1) |-> [x \in 0..(t.w - 1) |-> Smooth(t, n2, x, z)]]

\* a computeNormals without its early return
Recomputes_Always(t) == TRUE

\* Terrain::computeNormals: whether the two passes run
Recomputes(t) == ~t.computedNormals

ComputeNormalsT(t) ==
    IF Recomputes(t)
    THEN [t EXCEPT !.normals = NormalsOf(t), !.computedNormals = TRUE]
    ELSE t

\* Terrain::getNormal, before its read of normals[z][x]
GetNormalT(t) == IF ~t.computedNormals THEN ComputeNormalsT(t) ELSE t


---------------------------------------------------------------------------
(* Images (imageloader.h): width, height and 3 chars per pixel *)

PixelChars == {0, -1, -128}     \* the chars that read as 0, 255 and 128

\* (unsigned char) c
ToUChar(c) == c % 256

\* an image of one colour bg, with the first channel of pixel spot set to fg
ImageOf(W, H, bg, spot, fg) ==
    [width |-> W, height |-> H,
     pixels |-> [i \in 0..(3 * W * H - 1) |->
                    IF (i % 3) # 0 THEN 0 ELSE IF i = 3 * spot THEN fg ELSE bg]]

\* the decoded images of the model: one colour, or black with one white pixel
Images(Dims) ==
    UNION {{ImageOf(W, H, bg, 0, bg) : bg \in PixelChars}
           \cup {ImageOf(W, H, 0, spot, -1) : spot \in 0..(W * H - 1)}
           : W \in Dims, H \in Dims}

\* height * ((color / 255.0f) - 0.5f), as height * (2 * color - 255) / 510
PixelHeight(height, color) == FDiv(height * (2 * color - 255), 510)

\* the loops of loadTerrain from pixel number i (y = i \div width, x = i % width)
\* on: st.t is the terrain, st.calls the setHeight calls made so far
RECURSIVE LoadLoop(_, _, _, _)
LoadLoop(image, height, st, i) ==
    IF image.width <= 0 \/ i >= image.width * image.height
    THEN st
    ELSE LET y == i \div image.width
             x == i % image.width
             color == ToUChar(image.pixels[3 * (y * image.width + x)])
             h == PixelHeight(height, color)
         IN  LoadLoop(image, height,
                      [t |-> SetHeightT(st.t, x, y, h),
                       calls |-> Append(st.calls, <<x, y>>)],
                      i + 1)

\* a loadTerrain that returns without calling computeNormals
LoadTerrainT_NoCompute(image, height, t0) ==
    LET st == LoadLoop(image, height, [t |-> t0, calls |-> <<>>], 0)
    IN  [t |-> st.t, calls |-> st.calls]

\* loadTerrain on a terrain t0 fresh from the constructor
LoadTerrainT(image, height, t0) ==
    LET st == LoadLoop(image, height, [t |-> t0, calls |-> <<>>], 0)
    IN  [t |-> ComputeNormalsT(st.t), calls |-> st.calls]

---------------------------------------------------------------------------
(* The calls on a Terrain.  An access outside the arrays is undefined          *)
(* behaviour: the model lets it fault (the process ends), miss the arrays, or *)
(* hit another cell of them.                                                  *)

Ret(op, args, outcome, val) ==
    [op |-> op, args |-> args, outcome |-> outcome, val |-> val]

\* Terrain::Terrain(w2, l2), main.cpp:53-68
Construct(w2, l2) ==
    /\ ~crashed /\ ~terrain.live
    /\ IF NewThrows(w2, l2)
       THEN /\ terrain' = NoTerrain
            /\ ret' = Ret("Terrain", <<w2, l2>>, "bad_alloc", 0)
       ELSE /\ \E h0 \in HeightVals, n0 \in GarbageVecs :
                   terrain' = TerrainNew(w2, l2, h0, n0)
            /\ ret' = Ret("Terrain", <<w2, l2>>, "ok", 0)
    /\ sets' = 0
    /\ UNCHANGED <<crashed, gvars>>

\* loadTerrain(filename, height), main.cpp:196-211
LoadTerrain(image, height) ==
    /\ ~crashed /\ ~terrain.live
    /\ IF NewThrows(image.width, image.height)
       THEN /\ terrain' = NoTerrain
            /\ ret' = Ret("loadTerrain", <<image, height>>, "bad_alloc", <<>>)
       ELSE \E h0 \in HeightVals, n0 \in GarbageVecs :
               LET r == LoadTerrainT(image, height,
                                     TerrainNew(image.width, image.height, h0, n0))
               IN  /\ terrain' = r.t
                   /\ ret' = Ret("loadTerrain", <<image, height>>, "ok", r.calls)
    /\ sets' = 0
    /\ UNCHANGED <<crashed, gvars>>

\* Terrain::~Terrain, main.cpp:70-80
Delete ==
    /\ ~crashed /\ terrain.live
    /\ terrain' = NoTerrain
    /\ ret' = Ret("~Terrain", <<>>, "ok", 0)
    /\ sets' = 0
    /\ UNCHANGED <<crashed, gvars>>

\* Terrain::setHeight(x, z, y), main.cpp:91-94
SetHeight(x, z, y) ==
    /\ ~crashed /\ terrain.live /\ sets < MaxSets
    /\ sets' = sets + 1
    /\ IF InRange(terrain, x, z)
       THEN /\ terrain' = SetHeightT(terrain, x, z, y)
            /\ ret' = Ret("setHeight", <<x, z, y>>, "ok", 0)
            /\ crashed' = crashed
       ELSE \/ /\ crashed' = crashed
               /\ ret' = Ret("setHeight", <<x, z, y>>, "stray", 0)
               /\ \/ terrain' = [terrain EXCEPT !.computedNormals = FALSE]
                  \/ \E cx \in 0..(terrain.w - 1), cz \in 0..(terrain.l - 1) :
                        terrain' = SetHeightT(terrain, cx, cz, y)
            \/ /\ crashed' = TRUE
               /\ ret' = Ret("setHeight", <<x, z, y>>, "fault", 0)
               /\ terrain' = terrain
    /\ UNCHANGED gvars

\* Terrain::getHeight(x, z), main.cpp:97-99
GetHeight(x, z) ==
    /\ ~crashed /\ terrain.live
    /\ IF InRange(terrain, x, z)
       THEN /\ ret' = Ret("getHeight", <<x, z>>, "ok", terrain.hs[z][x])
            /\ crashed' = crashed
       ELSE \/ /\ crashed' = TRUE
               /\ ret' = Ret("getHeight", <<x, z>>, "fault", 0)
            \/ /\ crashed' = crashed
               /\ \E g \in HeightVals : ret' = Ret("getHeight", <<x, z>>, "stray", g)
    /\ UNCHANGED <<terrain, sets, gvars>>

\* Terrain::computeNormals(), main.cpp:102-183
ComputeNormals ==
    /\ ~crashed /\ terrain.live
    /\ terrain' = ComputeNormalsT(terrain)
    /\ ret' = Ret("computeNormals", <<>>, "ok", Recomputes(terrain))
    /\ UNCHANGED <<sets, crashed, gvars>>

\* Terrain::getNormal(x, z), main.cpp:186-191
GetNormal(x, z) ==
    /\ ~crashed /\ terrain.live
    /\ terrain' = GetNormalT(terrain)
    /\ IF InRange(terrain, x, z)
       THEN /\ ret' = Ret("getNormal", <<x, z>>, "ok", terrain'.normals[z][x])
            /\ crashed' = crashed
       ELSE \/ /\ crashed' = TRUE
               /\ ret' = Ret("getNormal", <<x, z>>, "fault", Zero)
            \/ /\ crashed' = crashed
               /\ \E g \in GarbageVecs : ret' = Ret("getNormal", <<x, z>>, "stray", g)
    /\ UNCHANGED <<sets, gvars>>

\* Terrain::width(), main.cpp:82-84
Width ==
    /\ ~crashed /\ terrain.live
    /\ ret' = Ret("width", <<>>, "ok", terrain.w)
    /\ UNCHANGED <<terrain, sets, crashed, gvars>>

\* Terrain::length(), main.cpp:86-88
Length ==
    /\ ~crashed /\ terrain.live
    /\ ret' = Ret("length", <<>>, "ok", terrain.l)
    /\ UNCHANGED <<terrain, sets, crashed, gvars>>

---------------------------------------------------------------------------
(* The Terrain class used within its contract: positive dimensions, cells in *)
(* range.  The globals of the game take no part and keep their initial       *)
(* values.                                                                   *)

TerrainInit ==
    /\ terrain = NoTerrain
    /\ ret = Ret("none", <<>>, "ok", 0)
    /\ sets = 0
    /\ crashed = FALSE
    /\ xpos = F(8) /\ zpos = F(8) /\ xvel = 0 /\ zvel = 0 /\ acc = 0 /\ fi = 0
    /\ tarx = F(55) /\ tarz = F(15) /\ cam = 1 /\ score = 30
    /\ extras = 0

Init == TerrainInit

Next ==
    \/ \E w2 \in 1..MaxDim, l2 \in 1..MaxDim : Construct(w2, l2)
    \/ \E image \in Images(1..MaxDim) : LoadTerrain(image, F(20))
    \/ Delete
    \/ \E x \in 0..(terrain.w - 1), z \in 0..(terrain.l - 1), y \in HeightVals :
          SetHeight(x, z, y)
    \/ \E x \in 0..(terrain.w - 1), z \in 0..(terrain.l - 1) : GetHeight(x, z)
    \/ ComputeNormals
    \/ \E x \in 0..(terrain.w - 1), z \in 0..(terrain.l - 1) : GetNormal(x, z)
    \/ Width
    \/ Length

Spec == Init /\ [][Next]_vars


---------------------------------------------------------------------------
(* The game: the globals of main.cpp:213-229 and the GLUT callbacks.  The    *)
(* camera scalars (_angle, theta, xax, yax, zax, savy, rot) only feed the    *)
(* rendering calls and are left out; the heights of the loaded map are left  *)
(* out as well (only the map's dimensions decide which cells exist).         *)

GameTerrain ==
    [live |-> TRUE, w |-> MapW, l |-> MapL, hs |-> <<>>, normals |-> <<>>,
     computedNormals |-> TRUE]

RandVals == 0..MaxRand

\* rand() % 30 + 15
NewTarz(r) == F((r % 30) + 15)

StartPos == F(8)
StartScore == 30

GameInit ==
    /\ terrain = GameTerrain
    /\ ret = Ret("none", <<>>, "ok", 0)
    /\ sets = 0
    /\ crashed = FALSE
    /\ xpos = StartPos /\ zpos = StartPos /\ xvel = 0 /\ zvel = 0 /\ acc = 0 /\ fi = 0
    /\ tarx = F(55) /\ tarz \in {NewTarz(r) : r \in RandVals} /\ cam = 1
    /\ score = StartScore
    /\ extras = 0

\* the bounds of the model on the inputs
InBox(x, z) ==
    /\ x >= StartPos - F(BackX) /\ x <= StartPos + F(FwdX)
    /\ z >= StartPos - F(BackZ) /\ z <= StartPos + F(FwdZ)

Playing == ~crashed /\ terrain.live

KeysLeft == score < StartScore + MaxHits

ExtraLeft == KeysLeft /\ extras < MaxExtra

\* cos(x) and sin(x) of <math.h>, by their Taylor polynomials
Cos(x) ==
    LET x2 == FMul(x, x)
    IN  Scale - x2 \div 2 + FMul(x2, x2) \div 24

Sin(x) ==
    LET x2 == FMul(x, x)
    IN  x - FDiv(FMul(x2, x), 6) + FDiv(FMul(FMul(x2, x2), x), 120)

\* (int) f
ToInt(f) == FDiv(f, Scale)

NoCall == Ret("none", <<>>, "ok", 0)

\* the keys of handleKeypress that change a global of the model
WalkKeys == {"k", "h", "j", "u"}
CamKeys == {"1", "2", "3", "5"}
\* space, w, s, a, d, c, v, z, x, 0 change camera scalars only: one key stands
\* for the ten
ViewKeys == {"view"}
Keys == WalkKeys \cup CamKeys \cup ViewKeys \cup {"l", "esc"}

CamOf(key) ==
    CASE key = "1" -> 1 [] key = "2" -> 2 [] key = "3" -> 3 [] key = "5" -> 5

\* handleKeypress(key, x, y), main.cpp:235-357
HandleKeypress(key) ==
    /\ Playing
    /\ ret' = NoCall
    /\ CASE key = "esc" ->
              /\ terrain' = NoTerrain
              /\ UNCHANGED <<sets, crashed, gvars>>
         [] key = "k" ->
              /\ KeysLeft /\ InBox(xpos, zpos + F(1))
              /\ zpos' = zpos + F(1)
              /\ UNCHANGED <<terrain, sets, crashed, xpos, xvel, zvel, acc, fi, tarx,
                             tarz, cam, score, extras>>
         [] key = "h" ->
              /\ KeysLeft /\ InBox(xpos, zpos - F(1))
              /\ zpos' = zpos - F(1)
              /\ UNCHANGED <<terrain, sets, crashed, xpos, xvel, zvel, acc, fi, tarx,
                             tarz, cam, score, extras>>
         [] key = "j" ->
              /\ KeysLeft /\ InBox(xpos - F(1), zpos)
              /\ xpos' = xpos - F(1)
              /\ UNCHANGED <<terrain, sets, crashed, zpos, xvel, zvel, acc, fi, tarx,
                             tarz, cam, score, extras>>
         [] key = "u" ->
              /\ KeysLeft /\ InBox(xpos + F(1), zpos)
              /\ xpos' = xpos + F(1)
              /\ UNCHANGED <<terrain, sets, crashed, zpos, xvel, zvel, acc, fi, tarx,
                             tarz, cam, score, extras>>
         [] key = "l" ->
              /\ ExtraLeft
              /\ xvel' = FMul(acc, Cos(fi))
              /\ zvel' = FMul(acc, Sin(fi))
              /\ acc' = 0
              /\ fi' = 0
              /\ extras' = extras + 1
              /\ UNCHANGED <<terrain, sets, crashed, xpos, zpos, tarx, tarz, cam, score>>
         [] key \in CamKeys ->
              /\ ExtraLeft
              /\ cam' = CamOf(key)
              /\ extras' = extras + 1
              /\ UNCHANGED <<terrain, sets, crashed, xpos, zpos, xvel, zvel, acc, fi,
                             tarx, tarz, score>>
         [] key \in ViewKeys ->
              UNCHANGED <<terrain, sets, crashed, gvars>>

SpecialKeys == {"UP", "DOWN", "LEFT", "RIGHT"}

\* handleKeypress2(key, x, y), main.cpp:360-384
HandleKeypress2(key) ==
    /\ Playing /\ ExtraLeft
    /\ ret' = NoCall
    /\ extras' = extras + 1
    /\ CASE key = "UP" -> acc' = acc + 300 /\ fi' = fi
         [] key = "DOWN" -> acc' = acc - 300 /\ fi' = fi
         [] key = "LEFT" -> fi' = fi - 50 /\ acc' = acc
         [] key = "RIGHT" -> fi' = fi + 50 /\ acc' = acc
    /\ UNCHANGED <<terrain, sets, crashed, xpos, zpos, xvel, zvel, tarx, tarz, cam, score>>

\* one velocity of update: stopped below 0.08, else slowed by 0.05
Slowed(v) ==
    LET v1 == IF v > -80 /\ v < 80 THEN 0 ELSE v
    IN  IF v1 > 0 THEN v1 - 50 ELSE IF v1 < 0 THEN v1 + 50 ELSE v1

\* update(value), main.cpp:634-660
Update ==
    /\ Playing
    /\ InBox(xpos + xvel, zpos + zvel)
    /\ ret' = NoCall
    /\ xpos' = xpos + xvel
    /\ zpos' = zpos + zvel
    /\ xvel' = Slowed(xvel)
    /\ zvel' = Slowed(zvel)
    /\ UNCHANGED <<terrain, sets, crashed, acc, fi, tarx, tarz, cam, score, extras>>

\* sqrt(dx * dx + dz * dz) < r, for r > 0 (the squares are taken only when
\* both are below r * r, which keeps them small)
Closer(dx, dz, r) ==
    /\ Abs(dx) < r /\ Abs(dz) < r
    /\ dx * dx + dz * dz < r * r

\* a test of detect() that forgets the 22 the target is drawn further in z
Hit_NoOffset(x, z, tx, tz) == Closer(x - tx, z - tz, 7500)

\* the test of detect(), main.cpp:502
Hit(x, z, tx, tz) == Closer(x - tx, z - tz - F(22), 7500)

\* detect(), main.cpp:498-522
Detect ==
    IF Hit(xpos, zpos, tarx, tarz)
    THEN /\ score' = score + 1
         /\ fi' = 0
         /\ xpos' = StartPos
         /\ zpos' = StartPos
         /\ xvel' = 0
         /\ zvel' = 0
         /\ acc' = 0
         /\ tarx' = F(55)
         /\ \E r \in RandVals : tarz' = NewTarz(r)
         /\ cam' = 1
    ELSE UNCHANGED <<xpos, zpos, xvel, zvel, acc, fi, tarx, tarz, cam, score>>

\* the cell drawScene passes to getHeight (main.cpp:558-559) and getNormal
\* (main.cpp:595)
AvatarCell == <<ToInt(xpos), ToInt(zpos)>>

\* drawScene(), main.cpp:523-632
DrawScene ==
    /\ Playing
    /\ UNCHANGED <<terrain, sets, extras>>
    /\ IF InRange(terrain, AvatarCell[1], AvatarCell[2])
       THEN /\ ret' = Ret("drawScene", AvatarCell, "ok", Hit(xpos, zpos, tarx, tarz))
            /\ crashed' = crashed
            /\ Detect
       ELSE \/ /\ ret' = Ret("drawScene", AvatarCell, "fault", FALSE)
               /\ crashed' = TRUE
               /\ UNCHANGED <<xpos, zpos, xvel, zvel, acc, fi, tarx, tarz, cam, score>>
            \/ /\ ret' = Ret("drawScene", AvatarCell, "stray",
                             Hit(xpos, zpos, tarx, tarz))
               /\ crashed' = crashed
               /\ Detect

NextGame ==
    \/ \E key \in Keys : HandleKeypress(key)
    \/ \E key \in SpecialKeys : HandleKeypress2(key)
    \/ Update
    \/ DrawScene

SpecGame == GameInit /\ [][NextGame]_vars


---------------------------------------------------------------------------
(* The Terrain class with callers that break its contract: dimensions down   *)
(* to -1, images with an empty side, cells one step outside the grid.        *)

\* the dimensions a careless caller passes
BadDims == -1..(MaxDim - 1)

\* the coordinates a careless caller passes: the cells and one step around them
Around(n) == -1..(IF n > 0 THEN n ELSE 0)

NextMisuse ==
    \/ \E w2 \in BadDims, l2 \in BadDims : Construct(w2, l2)
    \/ \E image \in Images(BadDims \ {-1}) : LoadTerrain(image, F(20))
    \/ Delete
    \/ \E x \in Around(terrain.w), z \in Around(terrain.l), y \in HeightVals :
          SetHeight(x, z, y)
    \/ \E x \in Around(terrain.w), z \in Around(terrain.l) : GetHeight(x, z)
    \/ ComputeNormals
    \/ \E x \in Around(terrain.w), z \in Around(terrain.l) : GetNormal(x, z)
    \/ Width
    \/ Length

SpecMisuse == Init /\ [][NextMisuse]_vars

---------------------------------------------------------------------------
(* Properties *)

CellsOf(t) == {<<z, x>> : z \in 0..(t.l - 1), x \in 0..(t.w - 1)}

Interior(t) == {c \in CellsOf(t) : c[1] > 0 /\ c[1] < t.l - 1 /\ c[2] > 0 /\ c[2] < t.w - 1}

Flat(t) == \A c, d \in CellsOf(t) : t.hs[c[1]][c[2]] = t.hs[d[1]][d[2]]

\* the 3x3 field [[0,0,0],[0,1,0],[0,0,0]]
IsPeak(t) ==
    /\ t.live /\ t.w = 3 /\ t.l = 3
    /\ \A c \in CellsOf(t) : t.hs[c[1]][c[2]] = IF c = <<1, 1>> THEN F(1) ELSE 0

\* C1: stale normals are never returned.  While computedNormals is true the
\* stored normals are those the two passes derive from the current heights;
\* every setHeight leaves computedNormals false; every getNormal(x, z) returns
\* the normal the two passes derive from the heights at the moment of the call.
C1_NoStaleNormals ==
    /\ (terrain.live /\ terrain.computedNormals) => terrain.normals = NormalsOf(terrain)
    /\ ret.op = "setHeight" => ~terrain.computedNormals
    /\ ret.op = "getNormal" =>
          ret.val = NormalsOf(terrain)[ret.args[2]][ret.args[1]]

\* a getNormal after a setHeight that raised the centre of a flat 3x3 field: the
\* normal returned at (0, 1) is tilted, which no normal of the flat field is
C1_Witness ==
    /\ IsPeak(terrain) /\ sets = 1
    /\ ret.op = "getNormal" /\ ret.args = <<0, 1>> /\ ret.val[1] # 0

\* C2: a setHeight, getHeight or getNormal call on a terrain with a cell outside
\* its grid ends with an OutOfRange outcome and changes nothing of the terrain.
C2_OutOfRangeFailsFast ==
    [][(/\ terrain.live /\ terrain.w > 0 /\ terrain.l > 0
        /\ ret'.op \in {"setHeight", "getHeight", "getNormal"}
        /\ ~InRange(terrain, ret'.args[1], ret'.args[2]))
       => (ret'.outcome = "OutOfRange" /\ terrain' = terrain)]_vars

\* C3: no Terrain with a non-positive dimension exists; constructing one, or
\* loading an image with an empty side, fails (with InvalidDimension, or with any
\* other error) and leaves no object.
C3_InvalidDimensionRejected ==
    /\ terrain.live => (terrain.w > 0 /\ terrain.l > 0)
    /\ (ret.op = "Terrain" /\ (ret.args[1] <= 0 \/ ret.args[2] <= 0))
          => ret.outcome # "ok"
    /\ (ret.op = "loadTerrain" /\ (ret.args[1].width <= 0 \/ ret.args[1].height <= 0))
          => ret.outcome # "ok"

\* C4, as claimed: on a flat height field computeNormals stores exactly (0,1,0)
\* at every interior cell.
C4_FlatInteriorIsUnitUp ==
    (terrain.live /\ terrain.computedNormals /\ Flat(terrain)) =>
        \A c \in Interior(terrain) : terrain.normals[c[1]][c[2]] = Vec3f(0, F(1), 0)

\* the number of cross products summed at the four neighbours of an interior cell
NeighbourPairs(t, x, z) ==
    Cardinality(Pairs(t, x - 1, z)) + Cardinality(Pairs(t, x + 1, z))
    + Cardinality(Pairs(t, x, z - 1)) + Cardinality(Pairs(t, x, z + 1))

\* C4, amended: on a flat height field computeNormals stores (0, k, 0) at every
\* interior cell, with k = 4 + half the number of cross products summed at its
\* four neighbours (so k >= 8): every raw cross product is (0,1,0), not zero,
\* the raw normal of the cell is (0,4,0) and the fallback does not fire.
C4_FlatInteriorIsUpMultiple ==
    (terrain.live /\ terrain.computedNormals /\ Flat(terrain)) =>
        \A c \in Interior(terrain) :
            /\ RawNormal(terrain, c[2], c[1]) = Vec3f(0, F(4), 0)
            /\ terrain.normals[c[1]][c[2]] =
                  Vec3f(0, F(4) + FMul(F(NeighbourPairs(terrain, c[2], c[1])),
                                       FALLOUT_RATIO), 0)
            /\ terrain.normals[c[1]][c[2]][2] >= F(8)

\* a flat 3x3 field with computed normals: the centre holds (0,8,0)
C4_Witness ==
    /\ terrain.live /\ terrain.computedNormals /\ Flat(terrain)
    /\ terrain.w = 3 /\ terrain.l = 3
    /\ terrain.normals[1][1] = Vec3f(0, F(8), 0)

\* C5, as claimed: on the 3x3 peak the centre normal has Y > 0 and the normals
\* of the four edge midpoints point toward the centre.
C5_PeakMidpointsTiltToward ==
    (IsPeak(terrain) /\ terrain.computedNormals) =>
        /\ terrain.normals[1][1][2] > 0
        /\ terrain.normals[1][0][1] > 0
        /\ terrain.normals[1][2][1] < 0
        /\ terrain.normals[0][1][3] > 0
        /\ terrain.normals[2][1][3] < 0

\* C5, amended: on the 3x3 peak the centre normal has Y > 0 and the normals of
\* the four edge midpoints point away from the centre: X < 0 at (x=0,z=1), X > 0
\* at (x=2,z=1), Z < 0 at (x=1,z=0), Z > 0 at (x=1,z=2).
C5_PeakMidpointsTiltAway ==
    (IsPeak(terrain) /\ terrain.computedNormals) =>
        /\ terrain.normals[1][1][2] > 0
        /\ terrain.normals[1][0][1] < 0
        /\ terrain.normals[1][2][1] > 0
        /\ terrain.normals[0][1][3] < 0
        /\ terrain.normals[2][1][3] > 0

\* the peak, with its normals computed
C5_Witness == IsPeak(terrain) /\ terrain.computedNormals /\ ret.op = "computeNormals"

\* how often setHeight was called for the cell (x, y) in the calls
CallsFor(calls, x, y) == Cardinality({i \in DOMAIN calls : calls[i] = <<x, y>>})

\* C6: loadTerrain calls setHeight exactly once per pixel, so that every height is
\* the pixel's, and returns with computedNormals true and the normals of those
\* heights; computedNormals then stays true through getHeight, getNormal,
\* computeNormals, width and length.
C6_LoadedNormalsStayValid ==
    /\ [][(ret'.op = "loadTerrain" /\ ret'.outcome = "ok") =>
            LET image == ret'.args[1]
            IN  /\ Len(ret'.val) = image.width * image.height
                /\ \A x \in 0..(image.width - 1), y \in 0..(image.height - 1) :
                      /\ CallsFor(ret'.val, x, y) = 1
                      /\ terrain'.hs[y][x] =
                            PixelHeight(ret'.args[2],
                                        ToUChar(image.pixels[3 * (y * image.width + x)]))
                /\ terrain'.w = image.width /\ terrain'.l = image.height
                /\ terrain'.computedNormals
                /\ terrain'.normals = NormalsOf(terrain')]_vars
    /\ [][(/\ terrain.live /\ terrain.computedNormals
           /\ ret'.op \in {"getHeight", "getNormal", "computeNormals", "width", "length"})
          => (terrain'.computedNormals /\ terrain'.normals = terrain.normals)]_vars

\* a getNormal on a loaded 3x3 terrain (its heights are the pixels') whose
\* normals are still valid
C6_Witness ==
    /\ terrain.live /\ terrain.w = 3 /\ terrain.l = 3 /\ sets = 0
    /\ terrain.hs[0][0] = PixelHeight(F(20), 0) /\ terrain.hs[0][1] = PixelHeight(F(20), 255)
    /\ ret.op = "getNormal" /\ terrain.computedNormals

\* C7: computeNormals on valid normals returns at once, without running the two
\* passes and without changing the terrain; a second computeNormals right after
\* a first leaves the normals as the first left them.
C7_ComputeNormalsIdempotent ==
    /\ [][(terrain.live /\ terrain.computedNormals /\ ret'.op = "computeNormals")
          => (ret'.val = FALSE /\ terrain' = terrain)]_vars
    /\ [][(ret.op = "computeNormals" /\ ret'.op = "computeNormals")
          => terrain' = terrain]_vars

\* a computeNormals that returned at once on a peak whose normals were valid
C7_Witness ==
    /\ IsPeak(terrain) /\ terrain.computedNormals
    /\ ret.op = "computeNormals" /\ ret.val = FALSE

\* C8: for every cell of every terrain, pass 1 reads heights and pass 2 reads raw
\* normals inside the grid only, a summed pair uses edge vectors that were built,
\* a cell with no pair has the zero raw normal, and the final normal is not zero.
C8_NormalsStayInBounds ==
    terrain.live =>
        \A c \in CellsOf(terrain) :
            LET x == c[2]
                z == c[1]
            IN  /\ Pass1Reads(terrain, x, z) \subseteq CellsOf(terrain)
                /\ Pass2Reads(terrain, x, z) \subseteq CellsOf(terrain)
                /\ \A p \in Pairs(terrain, x, z) : PairNeeds(p) \subseteq Built(terrain, x, z)
                /\ Pairs(terrain, x, z) = {} => RawNormal(terrain, x, z) = Zero
                /\ terrain.computedNormals => terrain.normals[z][x] # Zero

\* a 1x3 terrain (no cell has a pair) with computed normals, all (0,1,0)
C8_Witness ==
    /\ terrain.live /\ terrain.w = 1 /\ terrain.l = 3 /\ terrain.computedNormals
    /\ \A c \in CellsOf(terrain) : terrain.normals[c[1]][c[2]] = Vec3f(0, F(1), 0)

\* C9: the cell drawScene passes to getHeight and getNormal is a cell of the
\* terrain.
C9_AvatarCellInBounds ==
    ret.op = "drawScene" => InRange(GameTerrain, ret.args[1], ret.args[2])

\* the avatar is closer than 7.5 to (tarx, tarz + 22)
NearTarget(x, z, tx, tz) ==
    LET dx == x - tx
        dz == z - (tz + F(22))
    IN  Abs(dx) < 7500 /\ Abs(dz) < 7500 /\ dx * dx + dz * dz < 7500 * 7500

\* C10: score starts at 30 and changes only in drawScene's detect, by +1, when
\* the avatar is closer than 7.5 to the target; that step puts the avatar back
\* to (8, 8) at rest with cam = 1 and the target to (55, 15..44), farther than
\* 7.5 away, so a drawScene right after a hit leaves score alone; a drawScene
\* with the avatar that close does count the hit.
C10_ScoreCountsHitsOnce ==
    /\ score = 30
    /\ [][/\ score' >= score
          /\ score' # score =>
                /\ ret'.op = "drawScene"
                /\ score' = score + 1
                /\ NearTarget(xpos, zpos, tarx, tarz)
                /\ xpos' = F(8) /\ zpos' = F(8) /\ xvel' = 0 /\ zvel' = 0
                /\ acc' = 0 /\ fi' = 0 /\ cam' = 1
                /\ tarx' = F(55) /\ tarz' >= F(15) /\ tarz' <= F(44)
                /\ ~NearTarget(xpos', zpos', tarx', tarz')
          /\ (ret'.op = "drawScene" /\ ret'.outcome # "fault"
                /\ NearTarget(xpos, zpos, tarx, tarz)) => score' = score + 1
          /\ (ret.op = "drawScene" /\ ret.val = TRUE /\ ret'.op = "drawScene")
                => score' = score]_vars

\* the target was hit and counted
C10_Witness == score = 31 /\ ret.op = "drawScene" /\ ret.val = TRUE

=============================================================================
